---- MODULE Spec2Model ----
(***************************************************************************)
(* Region highlighting on the globe: the highlight requests of World       *)
(* (showCountry in the highlighter build, highlightCountry in the          *)
(* meshUtils build), the rotation animation, the filled-mesh conversion    *)
(* with its persistent store, and the tracking of attached geometry.       *)
(*                                                                         *)
(* JavaScript runs every handler to its first suspension point, so one     *)
(* action is one task: a call from the page, a timer callback, one         *)
(* animation-frame callback, the completion of a store or network          *)
(* operation together with the continuations it resumes.                   *)
(***************************************************************************)
EXTENDS Integers, Sequences, FiniteSets, TLC

\* ------------------------------------------------------------------ bounds

\* Highlight requests issued in one page session.
MaxReq == 2

\* Clock granularity: milliseconds that pass in one Tick.
TickMs == 400

\* Grid cells that survive the clipping of one polygon.
GridCells == 2

\* showCountry calls without a document.
MaxNoDataCalls == 1

\* ------------------------------------------------------- program constants

\* animateRotation: let duration = 800
duration == 800

\* showCountry: if (area > 1000000)
LargeCountryArea == 1000000

\* geoJsonTo3DMesh: meshMethod === "earcut" || area < 200000
EarcutMaxArea == 200000

\* World constructor: MAX_EARTH_RADIUS of the highlighter build
MAX_EARTH_RADIUS == 100

\* World constructor: MARGIN
MARGIN == 24

\* geoJsonTo3DMesh of highlighter.js: the regions read from and written to
\* the persistent store.
allowList == {"ru", "ca", "us", "cn", "br", "au"}

\* ------------------------------------------------------------------ inputs

Requests == 1..MaxReq

\* Region documents the page hands to showCountry: identifier, area of the
\* first feature in km2, polygons of the document.
Names == {"ru", "fr"}

AreaKm2(name) ==
  CASE name = "ru" -> 17098242
    [] name = "fr" -> 551695
    [] name = "gl" -> 2166086
    [] OTHER -> 0

Polygons(name) == IF name = "ru" THEN 2 ELSE 1

\* The calls of highlightCountry: country code and style ("none": absent, as
\* in the call from onPointerDown). "zz" is a code with a document but
\* without an entry in countryCenter.json or meshCountries.
HighlightCalls ==
  { [name |-> "ru", style |-> "mesh"],
    [name |-> "ru", style |-> "lines"],
    [name |-> "gl", style |-> "none"],
    [name |-> "gl", style |-> "lines"],
    [name |-> "zz", style |-> "mesh"] }

\* The codes /country/{code}.json exists for, and the codes of
\* countryCenter.json.
CountryDocuments == {"ru", "fr", "gl", "zz"}

CenterCodes == {"ru", "fr", "gl"}

\* The calls of showCountry the page makes: name, style, and the meshMethod
\* argument ("none": absent).
ShowCalls ==
  { [name |-> "ru", style |-> "mesh",  method |-> "none"],
    [name |-> "ru", style |-> "mesh",  method |-> "earcut"],
    [name |-> "ru", style |-> "lines", method |-> "none"],
    [name |-> "fr", style |-> "mesh",  method |-> "none"],
    [name |-> "fr", style |-> "pin",   method |-> "none"] }

\* Widths of the container element the page is shown in.
ContainerWidths == {400}

Min(a, b) == IF a < b THEN a ELSE b

Range(s) == {s[i] : i \in DOMAIN s}

\* World constructor: earthRadius = Math.min((containerWidth - MARGIN * 2) / 2,
\* MAX_EARTH_RADIUS)
EarthRadiusOf(containerWidth) == Min((containerWidth - MARGIN * 2) \div 2, MAX_EARTH_RADIUS)

\* --------------------------------------------------------------- the state

VARIABLES
  build,               \* which main.js the page loads: "highlighter" | "meshUtils"
  earthRadius,         \* World.earthRadius
  issued,              \* highlight requests issued so far
  req,                 \* req[r]: the arguments of request r
  pc,                  \* pc[r]: where request r is suspended
  docMethod,           \* geoJsonData['meshMethod'] of the document of request r
  children,            \* highlight objects in earth.children (uuids)
  previousGeometries,  \* the tracked uuids (module list / World field)
  rot,                 \* rot[r]: the rotation started by request r
  onComplete,          \* onComplete[r]: rotation r has a completion function
  elapsed,             \* min(Date.now() - startTime, duration) of rotation r
  raf,                 \* callbacks registered with requestAnimationFrame
  frameQ,              \* callbacks of the frame being run, not yet called
  quat,                \* earth.quaternion
  completions,         \* completions[r]: calls of rotation r's onComplete
  res,                 \* res[r]: the artifacts handed back to request r
  store,               \* the IndexedDB object store "meshData", by key
  save,                \* save[r]: the saveMeshData call started by request r
  polygonCache,        \* the module map polygonCache
  countryCenters,      \* World.countryCenters and the fetch that fills it
  meshPromise,         \* meshPromise[r] of highlightCountry: its state
  promised,            \* promised[r]: what meshPromise[r] resolved to
  computed,            \* computed[r]: request r ran tessellation + triangulation
  storeReads,          \* storeReads[r]: request r read the store or an asset
  priorDone,           \* priorDone[r], while r is in flight: a filled request
                       \* for the same key had completed when r was issued
  overlapped,          \* overlapped[r], while r is in flight: a conversion for
                       \* the same key was in flight when that of r began
  geoJson,             \* the document handed to geoJsonTo3DMesh
  converter,           \* which geoJsonTo3DMesh of the repository is called
  conversion,          \* how that call ended and what it left behind
  aRing,               \* a ring under the closing step of the feature loop
  passes,              \* how often the closing step was applied to it
  previousTargetLng,   \* previousTargetLatLng.lng of a call of rotateGlobeTo
  targetLng,           \* targetLatLng.lng of that call
  azimuthalAngle,      \* <<azimuthalAngle>> of that call, <<>> before it
  noData               \* per showCountry call without a document: the
                       \* objects under earth when it returned

rotVars == <<rot, onComplete, elapsed, raf, frameQ, quat, completions>>

hpVars == <<pc, children, previousGeometries, res, computed, storeReads, save,
            priorDone, overlapped>>

\* The state only the meshUtils build has.
hcVars == <<countryCenters, meshPromise, promised>>

\* The state of one call of rotateGlobeTo looked at on its own.
angleVars == <<previousTargetLng, targetLng, azimuthalAngle>>

\* The state of what is looked at on its own: one call of geoJsonTo3DMesh,
\* of rotateGlobeTo, of showCountry without a document.
conversionVars == <<geoJson, converter, conversion, aRing, passes, angleVars,
                    noData>>

\* The state of the page.
worldVars == <<build, earthRadius, issued, req, pc, docMethod, children,
               previousGeometries, rot, onComplete, elapsed, raf,
               frameQ, quat, completions, res, store, save, polygonCache,
               countryCenters, meshPromise, promised, computed, storeReads,
               priorDone, overlapped>>

vars == <<build, earthRadius, issued, req, pc, docMethod, children,
          previousGeometries, rot, onComplete, elapsed, raf,
          frameQ, quat, completions, res, store, save, polygonCache,
          countryCenters, meshPromise, promised, computed, storeReads, priorDone,
          overlapped, geoJson, converter, conversion, aRing, passes,
          previousTargetLng, targetLng, azimuthalAngle, noData>>

NoReq == [name |-> "", style |-> "", method |-> ""]

NoArt == [kind |-> "none", name |-> "", radius |-> 0, method |-> "", tess |-> "",
          src |-> "", n |-> 0]

NoEntry == [radius |-> 0, method |-> "", tess |-> ""]

InitialQuat == [k |-> "init", r |-> 0]

NoDocument == [name |-> "", meshMethod |-> "", features |-> <<>>]

NoConversion == [status |-> "none", meshes |-> <<>>, errors |-> <<>>,
                 saved |-> <<>>, processed |-> <<>>]

\* The page after construction.
WorldInit ==
  /\ build \in {"highlighter", "meshUtils"}
  /\ earthRadius \in {EarthRadiusOf(w) : w \in ContainerWidths}
  /\ issued = 0
  /\ req = [r \in Requests |-> NoReq]
  /\ pc = [r \in Requests |-> "idle"]
  /\ docMethod = [r \in Requests |-> "none"]
  /\ children = {}
  /\ previousGeometries = <<>>
  /\ rot = [r \in Requests |-> "none"]
  /\ onComplete = [r \in Requests |-> FALSE]
  /\ elapsed = [r \in Requests |-> 0]
  /\ raf = <<>>
  /\ frameQ = <<>>
  /\ quat = InitialQuat
  /\ completions = [r \in Requests |-> 0]
  /\ res = [r \in Requests |-> NoArt]
  /\ store = [n \in Names |-> NoEntry]
  /\ save = [r \in Requests |-> "none"]
  /\ polygonCache = [n \in Names |-> NoArt]
  /\ countryCenters = IF build = "meshUtils" THEN "fetching" ELSE "absent"
  /\ meshPromise = [r \in Requests |-> "none"]
  /\ promised = [r \in Requests |-> NoArt]
  /\ computed = [r \in Requests |-> FALSE]
  /\ storeReads = [r \in Requests |-> FALSE]
  /\ priorDone = [r \in Requests |-> FALSE]
  /\ overlapped = [r \in Requests |-> FALSE]

\* No call of rotateGlobeTo is looked at on its own.
AngleIdle ==
  /\ previousTargetLng = -90
  /\ targetLng = 0
  /\ azimuthalAngle = <<>>

\* No conversion is looked at on its own.
ConversionIdle ==
  /\ geoJson = NoDocument
  /\ converter = "none"
  /\ conversion = NoConversion
  /\ aRing = <<>>
  /\ passes = 0
  /\ AngleIdle
  /\ noData = <<>>

Init == WorldInit /\ ConversionIdle

\* ------------------------------------------------- conversion (highlighter.js)

\* geoJsonTo3DMesh: meshMethod === "earcut" || area < 200000 picks direct
\* triangulation, anything else the grid.
Tessellation(meshMethod, area) ==
  IF meshMethod = "earcut" \/ area < EarcutMaxArea THEN "earcut" ELSE "grid"

\* The meshes the feature loop of geoJsonTo3DMesh pushes: one per polygon when
\* triangulated directly, one per surviving grid cell otherwise, each
\* projected by createMesh at the radius of the call.
ComputeMeshes(name, meshMethod, radius) ==
  LET t == Tessellation(meshMethod, AreaKm2(name))
  IN  [kind |-> "mesh", name |-> name, radius |-> radius, method |-> meshMethod,
       tess |-> t, src |-> "compute",
       n |-> IF t = "earcut" THEN Polygons(name) ELSE Polygons(name) * GridCells]

\* geoJsonTo3DLines: one LineLoop per ring (the documents here have one ring
\* per polygon).
geoJsonTo3DLines(name, radius) ==
  [kind |-> "lines", name |-> name, radius |-> radius, method |-> "", tess |-> "",
   src |-> "compute", n |-> Polygons(name)]

\* geoJsonToSingle3DPin: one pin at the centroid of the first polygon.
geoJsonToSingle3DPin(name, radius) ==
  [kind |-> "pin", name |-> name, radius |-> radius, method |-> "", tess |-> "",
   src |-> "compute", n |-> 1]

\* saveMeshData(name, [combinedMesh]): the record put under the key. The
\* serialized geometry keeps the positions it was projected to and the
\* triangles it was built with.
StoredRecord(art) ==
  [radius |-> art.radius, method |-> art.method, tess |-> art.tess]

\* loadMeshData: result.value.map(deserializeMesh), the one combined mesh.
LoadedMeshes(name, entry) ==
  [kind |-> "mesh", name |-> name, radius |-> entry.radius, method |-> entry.method,
   tess |-> entry.tess, src |-> "store", n |-> 1]

\* The uuids of the objects of the artifacts handed back to request r.
Uuids(r, art) == {<<r, i>> : i \in 1..art.n}

UuidSeq(r, art) == [i \in 1..art.n |-> <<r, i>>]

\* loadMeshData finds a record under the key: result && Array.isArray(
\* result.value).
HasEntry(key) == key \in DOMAIN store /\ store[key] # NoEntry

\* ----------------------------------------------- tracking of attached objects

\* A removePreviousGeometries that empties the list and leaves the objects
\* under earth.
forgetPreviousGeometries ==
  /\ children' = children
  /\ previousGeometries' = <<>>

\* removePreviousGeometries: every tracked uuid found under earth is removed,
\* then the list is emptied.
removePreviousGeometries ==
  /\ children' = children \ Range(previousGeometries)
  /\ previousGeometries' = <<>>

\* Request r is over: what was recorded about its start is dropped.
Settled(r) ==
  /\ priorDone' = [priorDone EXCEPT ![r] = FALSE]
  /\ overlapped' = [overlapped EXCEPT ![r] = FALSE]

\* An attachment that adds the objects under earth and records no uuid.
AttachUntracked(r, art) ==
  /\ previousGeometries' = previousGeometries
  /\ children' = children \cup Uuids(r, art)
  /\ res' = [res EXCEPT ![r] = art]
  /\ pc' = [pc EXCEPT ![r] = "done"]
  /\ Settled(r)

\* highlightPolygons, last statement: polygonMeshes.forEach(geometry =>
\* { previousGeometries.push(geometry.uuid); earth.add(geometry) })
Attach(r, art) ==
  /\ previousGeometries' = previousGeometries \o UuidSeq(r, art)
  /\ children' = children \cup Uuids(r, art)
  /\ res' = [res EXCEPT ![r] = art]
  /\ pc' = [pc EXCEPT ![r] = "done"]
  /\ Settled(r)

\* A geoJsonTo3DMesh that computes and returns without saving.
ComputeAndAttachUnsaved(r, meshMethod) ==
  LET art == ComputeMeshes(req[r].name, meshMethod, earthRadius)
  IN  /\ computed' = [computed EXCEPT ![r] = TRUE]
      /\ UNCHANGED save
      /\ Attach(r, art)

\* geoJsonTo3DMesh from the feature loop on: compute, for an allow-listed
\* name combine and start saveMeshData without awaiting it, return the meshes,
\* which highlightPolygons attaches in the continuation of its await.
ComputeAndAttach(r, meshMethod) ==
  LET art == ComputeMeshes(req[r].name, meshMethod, earthRadius)
  IN  /\ computed' = [computed EXCEPT ![r] = TRUE]
      /\ save' = [save EXCEPT ![r] =
                    IF req[r].name \in allowList THEN "pending" ELSE @]
      /\ Attach(r, art)

\* highlightPolygons(name, geoJson, earth, radius, style), called with the
\* meshMethod the document carries at the call. A filled request for an
\* allow-listed name suspends in loadMeshData; every other request runs to
\* its end in the same task.
highlightPolygons(r, meshMethod) ==
  IF req[r].style = "mesh"
  THEN IF req[r].name \in allowList
       THEN /\ pc' = [pc EXCEPT ![r] = "loading"]
            /\ storeReads' = [storeReads EXCEPT ![r] = TRUE]
            /\ overlapped' = [overlapped EXCEPT ![r] =
                                \E q \in Requests \ {r} :
                                   /\ pc[q] = "loading"
                                   /\ req[q].name = req[r].name]
            /\ UNCHANGED <<children, previousGeometries, res, computed, save,
                           priorDone>>
       ELSE /\ ComputeAndAttach(r, meshMethod)
            /\ UNCHANGED storeReads
  ELSE /\ Attach(r, IF req[r].style = "lines"
                     THEN geoJsonTo3DLines(req[r].name, earthRadius)
                     ELSE geoJsonToSingle3DPin(req[r].name, earthRadius))
       /\ UNCHANGED <<computed, storeReads, save>>

\* ------------------------------------------------------------------ rotation

\* quaternion.copy(startRotation).slerp(finalRotation, fraction) in a frame
\* callback, where time has passed since the start and fraction < 1: an
\* orientation between the two, written by rotation r.
Slerp(r) == [k |-> "mid", r |-> r]

FinalRotation(r) == [k |-> "final", r |-> r]

\* rotateGlobeTo -> animateRotation(finalRotation, onComplete): startTime and
\* startRotation are captured and animate() runs once at fraction 0, which
\* copies startRotation back (no change) and registers the first frame
\* callback.
rotateGlobeTo(r, withCallback) ==
  /\ rot' = [rot EXCEPT ![r] = "running"]
  /\ onComplete' = [onComplete EXCEPT ![r] = withCallback]
  /\ elapsed' = [elapsed EXCEPT ![r] = 0]
  /\ quat' = quat
  /\ raf' = Append(raf, r)
  /\ UNCHANGED <<frameQ, completions>>

\* --------------------------------------------- the highlighter build (main.js)

\* No task of the page runs between two callbacks of one animation frame.
BetweenTasks == frameQ = <<>>

\* showCountry(name, geoJsonData, style, meshMethod) with a document: the
\* tracked geometry is removed and the timer of 200 ms is set.
showCountry(r, name, style, meshMethod) ==
  /\ build = "highlighter"
  /\ BetweenTasks
  /\ r = issued + 1
  /\ issued' = r
  /\ req' = [req EXCEPT ![r] = [name |-> name, style |-> style, method |-> meshMethod]]
  /\ priorDone' = [priorDone EXCEPT ![r] =
                     style = "mesh" /\ \E q \in Requests :
                        pc[q] = "done" /\ req[q].style = "mesh" /\ req[q].name = name]
  /\ removePreviousGeometries
  /\ pc' = [pc EXCEPT ![r] = "timer"]
  /\ UNCHANGED conversionVars
  /\ UNCHANGED <<build, earthRadius, docMethod, res, store, save, polygonCache,
                 computed, storeReads, overlapped>>
  /\ UNCHANGED rotVars
  /\ UNCHANGED hcVars

\* A showCountry that removes the tracked geometry before it looks at the
\* document.
showCountryNoDataRemoves ==
  /\ build = "highlighter"
  /\ BetweenTasks
  /\ Len(noData) < MaxNoDataCalls
  /\ removePreviousGeometries
  /\ noData' = Append(noData, children')
  /\ UNCHANGED <<geoJson, converter, conversion, aRing, passes>>
  /\ UNCHANGED angleVars
  /\ UNCHANGED <<build, earthRadius, issued, req, pc, docMethod, res, store,
                 save, polygonCache, computed, storeReads, priorDone, overlapped>>
  /\ UNCHANGED rotVars
  /\ UNCHANGED hcVars

\* showCountry(name, geoJsonData, style, meshMethod) with a geoJsonData that
\* is undefined or null: console.error("No GeoJSON data provided") and return,
\* before removePreviousGeometries and before the timer is set.
showCountryNoData ==
  /\ build = "highlighter"
  /\ BetweenTasks
  /\ Len(noData) < MaxNoDataCalls
  /\ noData' = Append(noData, children)
  /\ UNCHANGED <<geoJson, converter, conversion, aRing, passes>>
  /\ UNCHANGED angleVars
  /\ UNCHANGED worldVars

\* A timer callback that highlights at once whatever the area.
showCountryTimerUngated(r) ==
  /\ build = "highlighter"
  /\ BetweenTasks
  /\ pc[r] = "timer"
  /\ \A q \in Requests : q < r => pc[q] # "timer"
  /\ docMethod' = [docMethod EXCEPT ![r] = req[r].method]
  /\ highlightPolygons(r, req[r].method)
  /\ rotateGlobeTo(r, FALSE)
  /\ UNCHANGED conversionVars
  /\ UNCHANGED <<build, earthRadius, issued, req, store, polygonCache>>
  /\ UNCHANGED hcVars

\* The timer callback of showCountry. Timers of equal delay fire in the order
\* they were set.
showCountryTimer(r) ==
  /\ build = "highlighter"
  /\ BetweenTasks
  /\ pc[r] = "timer"
  /\ \A q \in Requests : q < r => pc[q] # "timer"
  /\ docMethod' = [docMethod EXCEPT ![r] = req[r].method]
  /\ IF AreaKm2(req[r].name) > LargeCountryArea
     THEN /\ highlightPolygons(r, req[r].method)
          /\ rotateGlobeTo(r, FALSE)
     ELSE /\ rotateGlobeTo(r, TRUE)
          /\ pc' = [pc EXCEPT ![r] = "rotating"]
          /\ UNCHANGED <<children, previousGeometries, res, computed, storeReads,
                         save, priorDone, overlapped>>
  /\ UNCHANGED conversionVars
  /\ UNCHANGED <<build, earthRadius, issued, req, store, polygonCache>>
  /\ UNCHANGED hcVars

\* loadMeshData(name) settles inside geoJsonTo3DMesh. It rejects when the
\* database cannot be opened or read or a record cannot be deserialized, and
\* nothing catches that; it returns the stored meshes, which are returned as
\* they are; or it returns null and the request computes.
loadMeshDataDone(r) ==
  /\ build = "highlighter"
  /\ BetweenTasks
  /\ pc[r] = "loading"
  /\ \/ /\ pc' = [pc EXCEPT ![r] = "failed"]
        /\ Settled(r)
        /\ UNCHANGED <<children, previousGeometries, res, computed, save>>
     \/ /\ store[req[r].name] # NoEntry
        /\ Attach(r, LoadedMeshes(req[r].name, store[req[r].name]))
        /\ UNCHANGED <<computed, save>>
     \/ /\ store[req[r].name] = NoEntry
        /\ ComputeAndAttach(r, docMethod[r])
  /\ UNCHANGED conversionVars
  /\ UNCHANGED <<build, earthRadius, issued, req, docMethod, store, polygonCache,
                 storeReads>>
  /\ UNCHANGED rotVars
  /\ UNCHANGED hcVars

\* saveMeshData(name, [combinedMesh]) settles: the record is put under the
\* key, or the database or the put fails and the rejection is dropped.
saveMeshDataDone(r) ==
  /\ build = "highlighter"
  /\ BetweenTasks
  /\ save[r] = "pending"
  /\ \/ /\ save' = [save EXCEPT ![r] = "saved"]
        /\ store' = [store EXCEPT ![req[r].name] = StoredRecord(res[r])]
     \/ /\ save' = [save EXCEPT ![r] = "failed"]
        /\ UNCHANGED store
  /\ UNCHANGED conversionVars
  /\ UNCHANGED <<build, earthRadius, issued, req, pc, docMethod, children,
                 previousGeometries, res, polygonCache, computed, storeReads,
                 priorDone, overlapped>>
  /\ UNCHANGED rotVars
  /\ UNCHANGED hcVars

\* ----------------------------------- the meshUtils build (highlightCountry)

\* JavaScript values of the arguments that reach polygonsToMesh.
JsStr(v) == <<"string", v>>

JsNum(v) == <<"number", v>>

JsUndefined == <<"undefined", 0>>

Undefined == [NoArt EXCEPT !.kind = "undefined"]

\* const DEFAULT_RADIUS = 100
DEFAULT_RADIUS == 100

\* highlightCountry: the codes whose mesh comes from loadGlbMesh.
meshCountries ==
  { "ps", "er", "fi", "gm", "ee", "iq", "hu", "ht", "es", "pe", "qa", "si",
    "sk", "ro", "pg", "gn", "fj", "gy", "ir", "kz", "ie", "id", "is", "eg",
    "sy", "sn", "ec", "et", "kh", "jm", "hr", "pt", "so", "pa", "sz", "gh",
    "jo", "it", "de", "sl", "cf", "mm", "na", "mz", "ml", "cg", "ao", "bt",
    "tn", "tl", "am", "cr", "az", "ba", "mn", "my", "mx", "lk", "cd", "al",
    "bw", "tz", "ve", "tm", "uz", "bd", "bs", "ng", "mk", "np", "ly", "cv",
    "br", "ca", "be", "ws", "th", "za", "uy", "tj", "vu", "bg", "ne", "cu",
    "bf", "zw", "zm", "vn", "co", "md", "la", "me", "lv", "om", "mr", "ni",
    "cy", "af", "cn", "bj", "tg", "tr", "ua", "cl", "lt", "mg", "lb", "lu",
    "ae", "cz", "bi", "ar", "cm", "td", "us", "bz", "ci", "no", "ch", "ug",
    "tt", "by", "au", "bn", "ma", "nz", "lr", "ls", "mw", "nl", "bo", "at",
    "ye", "sv", "sa", "kp", "kg", "in", "ge", "gr", "rs", "pl", "sb", "py",
    "dk", "il", "ke", "kr", "dj", "gq", "pk", "gb", "kw", "do", "gt", "ru",
    "sd", "ph", "ss", "rw", "dz", "ga", "fr", "hn", "jp", "gw", "sr", "se" }

\* geoJsonTo3DMesh of the meshUtils module: usingTurf = meshMethod === "turf"
\* || area >= 200000.
usingTurf(meshMethod, area) == meshMethod = "turf" \/ area >= EarcutMaxArea

\* geoJsonTo3DMesh(geoJson, radius) of the meshUtils module for a code
\* outside glbCountries: the feature loop.
MeshUtilsMeshes(name, radius) ==
  LET grid == usingTurf("none", AreaKm2(name))
  IN  [kind |-> "mesh", name |-> name, radius |-> radius, method |-> "none",
       tess |-> IF grid THEN "grid" ELSE "earcut", src |-> "compute",
       n |-> IF grid THEN Polygons(name) * GridCells ELSE Polygons(name)]

\* polygonsToMesh(geoJson, radius = DEFAULT_RADIUS, style = "mesh"): a style
\* that is none of the three strings falls off the end and yields undefined.
polygonsToMesh(name, radius, style) ==
  LET rad == IF radius = JsUndefined THEN JsNum(DEFAULT_RADIUS) ELSE radius
      st  == IF style = JsUndefined THEN JsStr("mesh") ELSE style
      num == IF rad[1] = "number" THEN rad[2] ELSE 0
  IN  IF st = JsStr("mesh") THEN MeshUtilsMeshes(name, num)
      ELSE IF st = JsStr("lines") THEN geoJsonTo3DLines(name, num)
      ELSE IF st = JsStr("pin") THEN geoJsonToSingle3DPin(name, num)
      ELSE Undefined

\* The style argument of highlightCountry as a JavaScript value.
JsStyle(style) == IF style = "none" THEN JsUndefined ELSE JsStr(style)

\* loadGlbMesh(countryName, radius) resolved: the mesh of the precomputed
\* asset of the code.
GlbMesh(name, radius) ==
  [kind |-> "mesh", name |-> name, radius |-> radius, method |-> "none",
   tess |-> "glb", src |-> "glb", n |-> 1]

\* A highlightCountry that rotates to whatever the lookup gives, without
\* the test of targetLatLng.
LookupAndRotateUnchecked(r, name) ==
  /\ rotateGlobeTo(r, TRUE)
  /\ pc' = [pc EXCEPT ![r] = "rotating"]

\* highlightCountry from the lookup of the target on: countryCenters that is
\* still undefined throws, which the catch logs; a code without coordinates
\* returns; otherwise the rotation starts with the attaching callback.
LookupAndRotate(r, name) ==
  IF countryCenters = "loaded" /\ name \in CenterCodes
  THEN /\ rotateGlobeTo(r, TRUE)
       /\ pc' = [pc EXCEPT ![r] = "rotating"]
  ELSE /\ pc' = [pc EXCEPT ![r] = "aborted"]
       /\ UNCHANGED rotVars

\* highlightCountry(countryName, style) up to its first suspension: the
\* tracked geometry is removed; a code of meshCountries starts loadGlbMesh
\* and goes on to the rotation in the same task, any other code awaits the
\* fetch of its document.
highlightCountry(r, name, style) ==
  /\ build = "meshUtils"
  /\ BetweenTasks
  /\ r = issued + 1
  /\ issued' = r
  /\ req' = [req EXCEPT ![r] = [name |-> name, style |-> style, method |-> "none"]]
  /\ removePreviousGeometries
  /\ IF name \in meshCountries
     THEN /\ meshPromise' = [meshPromise EXCEPT ![r] = "pending"]
          /\ storeReads' = [storeReads EXCEPT ![r] = TRUE]
          /\ LookupAndRotate(r, name)
     ELSE /\ pc' = [pc EXCEPT ![r] = "fetching"]
          /\ UNCHANGED <<meshPromise, storeReads>>
          /\ UNCHANGED rotVars
  /\ UNCHANGED conversionVars
  /\ UNCHANGED <<build, earthRadius, docMethod, res, store, save, polygonCache,
                 countryCenters, promised, computed, priorDone, overlapped>>

\* The fetch of /country/{code}.json settles inside highlightCountry: a
\* rejected fetch, a body that is no JSON or a null document end the request
\* in the catch or the early return; a document goes to polygonsToMesh, called
\* as polygonsToMesh(geoJson, style, this.earthRadius).
fetchGeoJsonDone(r) ==
  /\ build = "meshUtils"
  /\ BetweenTasks
  /\ pc[r] = "fetching"
  /\ \/ /\ pc' = [pc EXCEPT ![r] = "aborted"]
        /\ UNCHANGED <<meshPromise, promised, computed>>
        /\ UNCHANGED rotVars
     \/ /\ req[r].name \in CountryDocuments
        /\ LET m == polygonsToMesh(req[r].name, JsStyle(req[r].style),
                                    JsNum(earthRadius))
           IN  /\ meshPromise' = [meshPromise EXCEPT ![r] = "resolved"]
               /\ promised' = [promised EXCEPT ![r] = m]
               /\ computed' = [computed EXCEPT ![r] = m.kind = "mesh"]
        /\ LookupAndRotate(r, req[r].name)
  /\ UNCHANGED conversionVars
  /\ UNCHANGED <<build, earthRadius, issued, req, docMethod, children,
                 previousGeometries, res, store, save, polygonCache,
                 countryCenters, storeReads, priorDone, overlapped>>

\* The completion function highlightCountry hands to rotateGlobeTo:
\* meshes = await meshPromise, then every mesh is added and tracked; undefined
\* meshes or a rejected promise make the callback throw.
highlightCountryCallback(r) ==
  /\ UNCHANGED <<computed, storeReads, save>>
  /\ IF meshPromise[r] = "pending"
     THEN /\ pc' = [pc EXCEPT ![r] = "awaitMesh"]
          /\ UNCHANGED <<children, previousGeometries, res, priorDone, overlapped>>
     ELSE IF meshPromise[r] = "resolved" /\ promised[r] # Undefined
     THEN Attach(r, promised[r])
     ELSE /\ pc' = [pc EXCEPT ![r] = "failed"]
          /\ UNCHANGED <<children, previousGeometries, res, priorDone, overlapped>>

\* loadGlbMesh settles: with the mesh of the asset, or rejected. A callback
\* that awaits it goes on.
loadGlbMeshDone(r) ==
  /\ build = "meshUtils"
  /\ BetweenTasks
  /\ meshPromise[r] = "pending"
  /\ \/ /\ meshPromise' = [meshPromise EXCEPT ![r] = "resolved"]
        /\ promised' = [promised EXCEPT ![r] = GlbMesh(req[r].name, earthRadius)]
        /\ IF pc[r] = "awaitMesh"
           THEN Attach(r, GlbMesh(req[r].name, earthRadius))
           ELSE UNCHANGED <<pc, children, previousGeometries, res, priorDone,
                            overlapped>>
     \/ /\ meshPromise' = [meshPromise EXCEPT ![r] = "rejected"]
        /\ UNCHANGED <<promised, children, previousGeometries, res, priorDone,
                       overlapped>>
        /\ pc' = [pc EXCEPT ![r] = IF @ = "awaitMesh" THEN "failed" ELSE @]
  /\ UNCHANGED conversionVars
  /\ UNCHANGED <<build, earthRadius, issued, req, docMethod, store, save,
                 polygonCache, countryCenters, computed, storeReads>>
  /\ UNCHANGED rotVars

\* loadCountryCenters settles: the table is loaded, or the fetch failed and
\* countryCenters stays undefined.
loadCountryCentersDone ==
  /\ build = "meshUtils"
  /\ BetweenTasks
  /\ countryCenters = "fetching"
  /\ countryCenters' \in {"loaded", "failed"}
  /\ UNCHANGED conversionVars
  /\ UNCHANGED <<build, earthRadius, issued, req, docMethod, store, polygonCache,
                 meshPromise, promised>>
  /\ UNCHANGED hpVars
  /\ UNCHANGED rotVars

\* How a request that attached nothing ended. Reported: highlightCountry
\* logged with console.error and returned (no document, no coordinates, or
\* the catch around its body). Escaped: an exception left a callback nobody
\* catches, or a promise nobody awaits was rejected: the rejected
\* highlightPolygons in showCountry, the throwing completion function of
\* highlightCountry.
Reported(r) == pc[r] = "aborted"

Escaped(r) == pc[r] = "failed"

\* ------------------------------------------------------ frames and the clock

\* Time passes: Date.now() grows by TickMs for every running rotation.
Tick ==
  /\ \E r \in Requests : rot[r] = "running" /\ elapsed[r] < duration
  /\ elapsed' = [r \in Requests |->
                   IF rot[r] = "running" THEN Min(elapsed[r] + TickMs, duration)
                   ELSE elapsed[r]]
  /\ UNCHANGED conversionVars
  /\ UNCHANGED <<build, earthRadius, issued, req, docMethod, store, polygonCache,
                 rot, onComplete, raf, frameQ, quat,
                 completions>>
  /\ UNCHANGED hpVars
  /\ UNCHANGED hcVars

\* The browser starts a frame: the registered callbacks will run in the
\* order of their registration.
FrameBegin ==
  /\ BetweenTasks
  /\ raf # <<>>
  /\ frameQ' = raf
  /\ raf' = <<>>
  /\ UNCHANGED conversionVars
  /\ UNCHANGED <<build, earthRadius, issued, req, docMethod, store, polygonCache,
                 rot, onComplete, elapsed, quat, completions>>
  /\ UNCHANGED hpVars
  /\ UNCHANGED hcVars

\* The completion function of rotation r.
RotationComplete(r) ==
  IF build = "highlighter"
  THEN highlightPolygons(r, docMethod[r])
  ELSE highlightCountryCallback(r)

\* An animate that does not look at the fraction: it finishes in its first
\* frame.
animateEager(r) ==
  /\ quat' = FinalRotation(r)
  /\ rot' = [rot EXCEPT ![r] = "done"]
  /\ raf' = raf
  /\ IF onComplete[r]
     THEN /\ completions' = [completions EXCEPT ![r] = @ + 1]
          /\ RotationComplete(r)
     ELSE /\ UNCHANGED completions
          /\ UNCHANGED hpVars

\* animate, the frame callback of animateRotation: below fraction 1 it
\* interpolates and registers itself again, from fraction 1 on it sets the
\* final rotation and calls onComplete when that is a function.
animate(r) ==
  IF elapsed[r] < duration
  THEN /\ quat' = Slerp(r)
       /\ raf' = Append(raf, r)
       /\ UNCHANGED <<rot, completions>>
       /\ UNCHANGED hpVars
  ELSE /\ quat' = FinalRotation(r)
       /\ rot' = [rot EXCEPT ![r] = "done"]
       /\ raf' = raf
       /\ IF onComplete[r]
          THEN /\ completions' = [completions EXCEPT ![r] = @ + 1]
               /\ RotationComplete(r)
          ELSE /\ UNCHANGED completions
               /\ UNCHANGED hpVars

\* The next callback of the running frame is called.
FrameCallback ==
  /\ frameQ # <<>>
  /\ frameQ' = Tail(frameQ)
  /\ animate(Head(frameQ))
  /\ UNCHANGED conversionVars
  /\ UNCHANGED <<build, earthRadius, issued, req, docMethod, store, polygonCache,
                 onComplete, elapsed>>
  /\ UNCHANGED hcVars

\* -------------------------------------------- rings (geoJsonTo3DMesh, closing)

MaxRingLen == 4

MaxPasses == 2

\* Positions as GeoJSON has them: [lng, lat], and [lng, lat, altitude].
Positions == {<<0, 0>>, <<4, 0>>, <<0, 0, 7>>}

SeqsUpTo(S, n) == UNION {[1..k -> S] : k \in 0..n}

Rings == SeqsUpTo(Positions, MaxRingLen)

\* ring[0].every((val, index) => val === ring[ring.length - 1][index]): every
\* coordinate of the first position is looked up in the last one, and a
\* coordinate the last position lacks is undefined, equal to no number.
firstEveryLast(ring) ==
  \A index \in 1..Len(ring[1]) :
     /\ index <= Len(ring[Len(ring)])
     /\ ring[1][index] = ring[Len(ring)][index]

\* const ringClosed = ring[0].every(...) ? ring : [...ring, ring[0]]. On an
\* empty ring ring[0] is undefined and the expression throws.
ringClosed(ring) ==
  IF firstEveryLast(ring) THEN ring ELSE Append(ring, ring[1])

\* The closing step applied to a ring, and again to its result.
NormalizeRing ==
  /\ passes < MaxPasses
  /\ aRing # <<>>
  /\ aRing' = ringClosed(aRing)
  /\ passes' = passes + 1
  /\ UNCHANGED <<geoJson, converter, conversion>>
  /\ UNCHANGED angleVars
  /\ UNCHANGED noData
  /\ UNCHANGED worldVars

\* ------------------------------------------------ documents (geoJsonTo3DMesh)

MaxFeatures == 2

\* The three geoJsonTo3DMesh of the repository: utils/highlighter.js, the
\* meshUtils module, and the early highlighter without ring normalisation.
Converters == {"highlighter", "meshUtils", "early"}

closedRing == << <<0, 0>>, <<4, 0>>, <<4, 4>>, <<0, 0>> >>

openRing == << <<0, 0>>, <<4, 0>>, <<4, 4>> >>

shortRing == << <<0, 0>>, <<4, 0>> >>

mixedRing == << <<0, 0>>, <<4, 0>>, <<4, 4>>, <<0, 0, 7>> >>

emptyRing == << >>

\* Areas in km2 around the two thresholds.
SampleAreas == {199999, 200000, 1000000, 1000001}

\* A polygon of a document: its rings, and the area turf.area finds for it.
Polygon(rings, km2) == [rings |-> rings, km2 |-> km2]

\* A feature: geometry.type ("none": no geometry, or one without
\* coordinates) and the polygons of its coordinates; for type Polygon the one
\* polygon the coordinates are.
Feature(type, polygons) == [type |-> type, polygons |-> polygons]

Features ==
  { Feature("Polygon", <<Polygon(<<rg>>, a)>>) :
      rg \in {closedRing, openRing}, a \in SampleAreas }
  \cup
  { Feature("Polygon", <<Polygon(<<closedRing, shortRing>>, 199999)>>),
    Feature("Polygon", <<Polygon(<<shortRing, closedRing>>, 199999)>>),
    Feature("Polygon", <<Polygon(<<shortRing>>, 0)>>),
    Feature("Polygon", <<Polygon(<<emptyRing>>, 0)>>),
    Feature("Polygon", <<Polygon(<<mixedRing>>, 199999)>>),
    Feature("MultiPolygon", <<Polygon(<<closedRing>>, 199999),
                              Polygon(<<openRing>>, 1000001)>>),
    Feature("LineString", <<>>),
    Feature("none", <<>>) }

\* The documents handed to geoJsonTo3DMesh: the name of the call, the
\* meshMethod the document carries ("none": absent) and its features.
Documents ==
  { [name |-> n, meshMethod |-> m, features |-> fs] :
      n \in Names, m \in {"none", "earcut", "turf"},
      fs \in SeqsUpTo(Features, MaxFeatures) }

\* The grid or direct triangulation, as each geoJsonTo3DMesh decides it.
usesGrid(conv, meshMethod, area) ==
  CASE conv = "highlighter" -> Tessellation(meshMethod, area) = "grid"
    [] conv = "meshUtils"   -> usingTurf(meshMethod, area)
    [] OTHER                -> area > EarcutMaxArea

\* const cellSide = area > 1000000 ? ... : ... of each geoJsonTo3DMesh.
cellSide(conv, area) ==
  CASE conv = "highlighter" -> IF area > 1000000 THEN 75 ELSE 30
    [] conv = "meshUtils"   -> IF area > 1000000 THEN 75 ELSE 20
    [] OTHER                -> IF area > 1000000 THEN 100 ELSE 10

\* earcut.flatten(rings).vertices: the positions of all rings in order.
RECURSIVE flatten(_)
flatten(rings) ==
  IF rings = <<>> THEN <<>> ELSE Head(rings) \o flatten(Tail(rings))

\* earcut(vertices, holes, dimensions): triangles over the vertices, as
\* zero-based indices; the fan stands for the triangulation earcut finds.
earcut(vertices) ==
  [k \in 1..(3 * (Len(vertices) - 2)) |->
     IF (k - 1) % 3 = 0 THEN 0 ELSE ((k - 1) \div 3) + ((k - 1) % 3)]

\* createMesh: a BufferGeometry with one position per vertex and the index.
createMesh(vertices, indices) == [position |-> vertices, index |-> indices]

\* The ring of what turf.intersect leaves of the polygon in grid cell k.
clipped(k) == << <<k, 0>>, <<k + 1, 0>>, <<k, 1>>, <<k, 0>> >>

\* The rings of a polygon after the closing step and the length filter.
normalizedRings(polygonCoords) ==
  SelectSeq([i \in 1..Len(polygonCoords) |-> ringClosed(polygonCoords[i])],
            LAMBDA rc : Len(rc) >= 4)

\* turf.polygon(rings) throws on a ring of fewer than 4 positions and on a
\* ring whose last position is not the first one.
turfPolygonThrows(rings) ==
  \E i \in 1..Len(rings) :
     \/ Len(rings[i]) < 4
     \/ rings[i][Len(rings[i])] # rings[i][1]

\* What the loop has got so far: the meshes pushed, the console.error calls,
\* the rings that went to turf.area and the triangulation with the cell side
\* used (0: no grid), in the grid what turf.intersect gave for the cells and
\* the geometries whose coordinates went to earcut.flatten, and whether an
\* exception ended the call.
EmptyAcc == [thrown |-> FALSE, meshes |-> <<>>, errors |-> <<>>,
             processed |-> <<>>]

Thrown(acc) == [acc EXCEPT !.thrown = TRUE]

\* turf.intersect(featureCollection([cell, polygon])) for the cells of the
\* square grid over the bounding box: null for a cell the polygon does not
\* reach (cell 0), a Polygon, or a MultiPolygon where the polygon crosses the
\* cell in two pieces.
intersect(k) ==
  IF k = 0
  THEN [type |-> "null", coordinates |-> <<>>]
  ELSE IF k % 2 = 1
  THEN [type |-> "Polygon", coordinates |-> <<clipped(k)>>]
  ELSE [type |-> "MultiPolygon",
        coordinates |-> << <<clipped(k)>>, <<clipped(k + GridCells)>> >>]

\* squareGrid.features.map(cell => turf.intersect(...)).
intersections == [i \in 1..(GridCells + 1) |-> intersect(i - 1)]

\* clippedPolygons: the intersections that exist and have coordinates.
survives(intersection) ==
  intersection.type # "null" /\ intersection.coordinates # <<>>

clippedPolygons == SelectSeq(intersections, survives)

\* The earcut branch or the grid branch for the rings of one polygon. In the
\* grid every clipped polygon gets one earcut.flatten(clipped.geometry.
\* coordinates), earcut and createMesh, whatever the type of its geometry:
\* the coordinates of a MultiPolygon are flattened as if its polygons were
\* rings, and the fan stands for what earcut makes of such entries.
tessellate(conv, meshMethod, rings, km2, acc) ==
  IF usesGrid(conv, meshMethod, km2)
  THEN [acc EXCEPT
          !.meshes = @ \o [i \in 1..Len(clippedPolygons) |->
                             createMesh(flatten(clippedPolygons[i].coordinates),
                                        earcut(flatten(clippedPolygons[i].coordinates)))],
          !.processed = Append(@, [rings |-> rings, km2 |-> km2,
                                   cellSide |-> cellSide(conv, km2),
                                   intersections |-> intersections,
                                   flattened |-> clippedPolygons])]
  ELSE [acc EXCEPT
          !.meshes = Append(@, createMesh(flatten(rings),
                                          earcut(flatten(rings)))),
          !.processed = Append(@, [rings |-> rings, km2 |-> km2,
                                   cellSide |-> 0,
                                   intersections |-> <<>>,
                                   flattened |-> <<>>])]

\* The body of the loop over the polygons of a feature. The early version
\* hands the coordinates to turf.polygon as they are.
polygonToMeshes(conv, meshMethod, polygon, acc) ==
  IF conv = "early"
  THEN IF turfPolygonThrows(polygon.rings)
       THEN Thrown(acc)
       ELSE tessellate(conv, meshMethod, polygon.rings, polygon.km2, acc)
  ELSE IF \E i \in 1..Len(polygon.rings) : polygon.rings[i] = <<>>
       THEN Thrown(acc)
       ELSE LET rings == normalizedRings(polygon.rings)
            IN  IF rings = <<>>
                THEN [acc EXCEPT !.errors =
                        Append(@, "Invalid or too few coordinates")]
                ELSE IF turfPolygonThrows(rings)
                THEN Thrown(acc)
                ELSE tessellate(conv, meshMethod, rings, polygon.km2, acc)

RECURSIVE polygonsLoop(_, _, _, _)
polygonsLoop(conv, meshMethod, polygons, acc) ==
  IF acc.thrown \/ polygons = <<>>
  THEN acc
  ELSE polygonsLoop(conv, meshMethod, Tail(polygons),
                    polygonToMeshes(conv, meshMethod, Head(polygons), acc))

\* A loop that gives up at a geometry type it does not support.
unsupportedGeometryThrows(acc) == Thrown(acc)

\* if (!polygons) { console.error("Unsupported geometry type"); continue; }
unsupportedGeometry(acc) ==
  [acc EXCEPT !.errors = Append(@, "Unsupported geometry type")]

\* for (const feature of geoJson.features): a feature without geometry and a
\* feature of another type than Polygon and MultiPolygon are logged and
\* skipped.
RECURSIVE featureLoop(_, _, _, _)
featureLoop(conv, meshMethod, features, acc) ==
  IF acc.thrown \/ features = <<>>
  THEN acc
  ELSE LET feature == Head(features)
       IN  featureLoop(conv, meshMethod, Tail(features),
             IF feature.type = "none"
             THEN [acc EXCEPT !.errors =
                     Append(@, "Feature does not have a valid geometry")]
             ELSE IF feature.type \notin {"Polygon", "MultiPolygon"}
             THEN unsupportedGeometry(acc)
             ELSE polygonsLoop(conv, meshMethod, feature.polygons, acc))

\* The index of mergeGeometries: the indices of every geometry, moved by the
\* number of positions before it.
RECURSIVE mergedIndex(_, _)
mergedIndex(meshes, offset) ==
  IF meshes = <<>>
  THEN <<>>
  ELSE [k \in 1..Len(Head(meshes).index) |-> Head(meshes).index[k] + offset]
       \o mergedIndex(Tail(meshes), offset + Len(Head(meshes).position))

\* A combineMeshes that keeps the first geometry only.
combineMeshesFirst(meshes) == meshes[1]

\* combineMeshes(meshes): mergeGeometries(geometries, false) and the material
\* of the first mesh, which an empty list does not have.
combineMeshes(meshes) ==
  createMesh(flatten([i \in 1..Len(meshes) |-> meshes[i].position]),
             mergedIndex(meshes, 0))

\* geoJsonTo3DMesh from the feature loop on, the store having no record:
\* highlighter.js combines and saves for a name of the allow-list, and every
\* version returns the meshes.
geoJsonTo3DMesh(conv, doc) ==
  LET acc == featureLoop(conv, doc.meshMethod, doc.features, EmptyAcc)
      cached == conv = "highlighter" /\ doc.name \in allowList
  IN  IF acc.thrown \/ (cached /\ acc.meshes = <<>>)
      THEN [status |-> "thrown", meshes |-> <<>>, errors |-> acc.errors,
            saved |-> <<>>, processed |-> acc.processed]
      ELSE [status |-> "returned", meshes |-> acc.meshes,
            errors |-> acc.errors,
            saved |-> IF cached THEN <<combineMeshes(acc.meshes)>> ELSE <<>>,
            processed |-> acc.processed]

\* The documents the feature loop pushes no mesh for and does not throw on:
\* every feature is without geometry, of an unsupported type, or has only
\* polygons all of whose rings fall to the length filter.
NoValidGeometry(doc) ==
  \A i \in 1..Len(doc.features) :
     \/ doc.features[i].type \notin {"Polygon", "MultiPolygon"}
     \/ \A j \in 1..Len(doc.features[i].polygons) :
           \A k \in 1..Len(doc.features[i].polygons[j].rings) :
              /\ doc.features[i].polygons[j].rings[k] # <<>>
              /\ Len(ringClosed(doc.features[i].polygons[j].rings[k])) < 4

\* serializeMesh(mesh): geometry.toJSON() holds the positions as one flat
\* array of three numbers per vertex (the point of a position, its altitude
\* not looked at) and the index as it is.
serializeMesh(mesh) ==
  [geometry |->
     [position |-> flatten([i \in 1..Len(mesh.position) |->
                              <<mesh.position[i][1], mesh.position[i][2], 0>>]),
      index |-> mesh.index]]

\* deserializeMesh(data): BufferGeometryLoader.parse reads the flat array
\* back as one vertex per three numbers.
deserializeMesh(data) ==
  createMesh([i \in 1..(Len(data.geometry.position) \div 3) |->
                <<data.geometry.position[3 * i - 2],
                  data.geometry.position[3 * i - 1]>>],
             data.geometry.index)

\* What loadMeshData(key) returns once saveMeshData(key, meshes) has put its
\* record: result.value.map(deserializeMesh) over meshes.map(serializeMesh).
loadMeshData(meshes) ==
  [i \in 1..Len(meshes) |-> deserializeMesh(serializeMesh(meshes[i]))]

\* One call of geoJsonTo3DMesh on the document.
Convert ==
  /\ converter \in Converters
  /\ conversion.status = "none"
  /\ conversion' = geoJsonTo3DMesh(converter, geoJson)
  /\ UNCHANGED <<geoJson, converter, aRing, passes>>
  /\ UNCHANGED angleVars
  /\ UNCHANGED noData
  /\ UNCHANGED worldVars

\* --------------------------------------------------- outlines (geoJsonTo3DLines)

\* ring.forEach(([lng, lat]) => latLngTo3DPosition(lat, lng, radius)): the
\* point of a position; an altitude is not looked at.
projected(position) == <<position[1], position[2]>>

\* One LineLoop: the points of the ring and, pushed after them, the first
\* three numbers of the list, which is the first point (nothing on an empty
\* list).
lineLoop(rg) ==
  LET points == [k \in 1..Len(rg) |-> projected(rg[k])]
  IN  [position |-> IF rg = <<>> THEN <<>> ELSE Append(points, points[1])]

\* The rings of the polygons of a feature, in order.
RECURSIVE ringsOf(_)
ringsOf(polygons) ==
  IF polygons = <<>> THEN <<>>
  ELSE Head(polygons).rings \o ringsOf(Tail(polygons))

\* feature.geometry.coordinates.forEach(polygon => polygon.forEach(ring =>
\* ring.forEach(([lng, lat]) => ...))): the three levels are walked whatever
\* the type is. The coordinates of a MultiPolygon have them. Those of a
\* Polygon are one level short: its rings are taken for polygons and its
\* positions for rings, and destructuring the number found in a position
\* throws. The coordinates of the other types are shorter still and throw on
\* the forEach of a number.
featureLines(feature, acc) ==
  IF feature.type = "MultiPolygon"
  THEN [acc EXCEPT !.meshes =
          @ \o [k \in 1..Len(ringsOf(feature.polygons)) |->
                  lineLoop(ringsOf(feature.polygons)[k])]]
  ELSE IF /\ feature.type = "Polygon"
          /\ \A k \in 1..Len(ringsOf(feature.polygons)) :
                ringsOf(feature.polygons)[k] = <<>>
  THEN acc
  ELSE Thrown(acc)

RECURSIVE linesLoop(_, _)
linesLoop(features, acc) ==
  IF acc.thrown \/ features = <<>>
  THEN acc
  ELSE linesLoop(Tail(features),
         IF Head(features).type = "none"
         THEN [acc EXCEPT !.errors =
                 Append(@, "Feature does not have a valid geometry")]
         ELSE featureLines(Head(features), acc))

\* geoJsonTo3DLines(geoJson, radius) on a document.
geoJsonTo3DLinesOf(doc) ==
  LET acc == linesLoop(doc.features, EmptyAcc)
  IN  [status |-> IF acc.thrown THEN "thrown" ELSE "returned",
       meshes |-> IF acc.thrown THEN <<>> ELSE acc.meshes,
       errors |-> acc.errors, saved |-> <<>>, processed |-> <<>>]

\* A polygon with a hole, and a multipolygon of it and a polygon without.
holedPolygon == Polygon(<<closedRing, closedRing>>, 199999)

OutlineFeatures ==
  Features \cup
  { Feature("Polygon", <<holedPolygon>>),
    Feature("MultiPolygon", <<holedPolygon, Polygon(<<closedRing>>, 199999)>>) }

\* The documents handed to geoJsonTo3DLines; the name and meshMethod of a
\* document are not looked at.
OutlineDocuments ==
  { [name |-> "fr", meshMethod |-> "none", features |-> fs] :
      fs \in SeqsUpTo(OutlineFeatures, MaxFeatures) }

\* One call of geoJsonTo3DLines on the document.
ConvertLines ==
  /\ converter = "outline"
  /\ conversion.status = "none"
  /\ conversion' = geoJsonTo3DLinesOf(geoJson)
  /\ UNCHANGED <<geoJson, converter, aRing, passes>>
  /\ UNCHANGED angleVars
  /\ UNCHANGED noData
  /\ UNCHANGED worldVars

\* ------------------------------------------------------- the key of the cache

\* loadMeshData(name), saveMeshData(name, ...), [...].includes(name): the
\* name of the call is the key, as it was passed.
cacheKey(name) == name

\* The same identifier in the other letter case.
OtherCase(name) ==
  CASE name = "ru" -> "RU"
    [] name = "RU" -> "ru"
    [] name = "fr" -> "FR"
    [] name = "FR" -> "fr"
    [] OTHER       -> name

\* Documents under identifiers in both letter cases.
CaseDocuments ==
  { [name |-> n, meshMethod |-> "none", features |-> fs] :
      n \in {"ru", "RU", "fr", "FR"},
      fs \in SeqsUpTo(Features, MaxFeatures) }

\* ------------------------------------------------- the azimuth (rotateGlobeTo)

MaxLongitude == 180

\* a % n of JavaScript: the remainder has the sign of the dividend.
JsRemainder(a, n) == IF a >= 0 THEN a % n ELSE -((-a) % n)

\* const normalizeAngle = (angle) => ((angle + 180) % 360) - 180
normalizeAngle(angle) == JsRemainder(angle + 180, 360) - 180

\* rotateGlobeTo up to azimuthalAngle:
\* normalizeAngle(targetLatLng.lng - initialLatLng.lng).
ComputeAzimuth ==
  /\ azimuthalAngle = <<>>
  /\ azimuthalAngle' = <<normalizeAngle(targetLng - previousTargetLng)>>
  /\ UNCHANGED <<previousTargetLng, targetLng>>
  /\ UNCHANGED <<geoJson, converter, conversion, aRing, passes, noData>>
  /\ UNCHANGED worldVars

\* ------------------------------------------------------------ specification

Next ==
  \/ \E r \in Requests, c \in ShowCalls :
        showCountry(r, c.name, c.style, c.method)
  \/ \E r \in Requests : showCountryTimer(r)
  \/ \E r \in Requests : loadMeshDataDone(r)
  \/ \E r \in Requests : saveMeshDataDone(r)
  \/ \E r \in Requests, c \in HighlightCalls : highlightCountry(r, c.name, c.style)
  \/ \E r \in Requests : fetchGeoJsonDone(r)
  \/ \E r \in Requests : loadGlbMeshDone(r)
  \/ loadCountryCentersDone
  \/ Tick
  \/ FrameBegin
  \/ FrameCallback

Spec == Init /\ [][Next]_vars

\* The event loop runs every task that is due: time advances while a rotation
\* runs, animation frames are delivered, timers fire and every request to the
\* store settles. Nothing obliges the user to issue a request.
EventLoopFairness ==
  /\ WF_vars(Tick)
  /\ WF_vars(FrameBegin)
  /\ WF_vars(FrameCallback)
  /\ \A r \in Requests : /\ WF_vars(showCountryTimer(r))
                          /\ WF_vars(loadMeshDataDone(r))
                          /\ WF_vars(saveMeshDataDone(r))

\* The highlighter build under calls that leave the store alone: a small
\* region, whose rotation has a completion function, and a large one, whose
\* rotation has none.
RotationCalls ==
  { [name |-> "fr", style |-> "mesh",  method |-> "none"],
    [name |-> "ru", style |-> "lines", method |-> "none"] }

RotationInit == Init /\ build = "highlighter"

RotationNext ==
  \/ \E r \in Requests, c \in RotationCalls :
        showCountry(r, c.name, c.style, c.method)
  \/ \E r \in Requests : showCountryTimer(r)
  \/ Tick
  \/ FrameBegin
  \/ FrameCallback

RotationSpec == RotationInit /\ [][RotationNext]_vars /\ EventLoopFairness

\* The highlighter build under filled requests, for a region of the allow-list
\* and for one outside it.
StoreCalls ==
  { [name |-> "ru", style |-> "mesh", method |-> "none"],
    [name |-> "fr", style |-> "mesh", method |-> "none"] }

StoreNext ==
  \/ \E r \in Requests, c \in StoreCalls :
        showCountry(r, c.name, c.style, c.method)
  \/ \E r \in Requests : showCountryTimer(r)
  \/ \E r \in Requests : loadMeshDataDone(r)
  \/ \E r \in Requests : saveMeshDataDone(r)
  \/ Tick
  \/ FrameBegin
  \/ FrameCallback

StoreSpec == RotationInit /\ [][StoreNext]_vars /\ EventLoopFairness

\* The closing step on every ring of up to MaxRingLen positions.
RingInit ==
  /\ WorldInit /\ build = "highlighter"
  /\ geoJson = NoDocument /\ converter = "none" /\ conversion = NoConversion
  /\ aRing \in Rings
  /\ passes = 0
  /\ AngleIdle
  /\ noData = <<>>

RingNext == NormalizeRing

RingSpec == RingInit /\ [][RingNext]_vars

\* geoJsonTo3DMesh of each version on every document of up to MaxFeatures
\* features.
ConversionInit ==
  /\ WorldInit /\ build = "highlighter"
  /\ geoJson \in Documents
  /\ converter \in Converters
  /\ conversion = NoConversion
  /\ aRing = <<>>
  /\ passes = 0
  /\ AngleIdle
  /\ noData = <<>>

ConversionNext == Convert

ConversionSpec == ConversionInit /\ [][ConversionNext]_vars

\* geoJsonTo3DLines on every document of up to MaxFeatures features.
OutlineInit ==
  /\ WorldInit /\ build = "highlighter"
  /\ geoJson \in OutlineDocuments
  /\ converter = "outline"
  /\ conversion = NoConversion
  /\ aRing = <<>>
  /\ passes = 0
  /\ AngleIdle
  /\ noData = <<>>

OutlineNext == ConvertLines

OutlineSpec == OutlineInit /\ [][OutlineNext]_vars

\* geoJsonTo3DMesh of highlighter.js under identifiers in both letter cases.
CaseInit ==
  /\ WorldInit /\ build = "highlighter"
  /\ geoJson \in CaseDocuments
  /\ converter = "highlighter"
  /\ conversion = NoConversion
  /\ aRing = <<>>
  /\ passes = 0
  /\ AngleIdle
  /\ noData = <<>>

CaseNext == Convert

CaseSpec == CaseInit /\ [][CaseNext]_vars

\* rotateGlobeTo on every pair of whole longitudes.
AngleInit ==
  /\ WorldInit /\ build = "highlighter"
  /\ geoJson = NoDocument /\ converter = "none" /\ conversion = NoConversion
  /\ aRing = <<>> /\ passes = 0
  /\ previousTargetLng \in -MaxLongitude..MaxLongitude
  /\ targetLng \in -MaxLongitude..MaxLongitude
  /\ azimuthalAngle = <<>>
  /\ noData = <<>>

AngleNext == ComputeAzimuth

AngleSpec == AngleInit /\ [][AngleNext]_vars

\* The highlighter build with calls of showCountry that carry no document
\* among the requests.
NoDataNext ==
  \/ \E r \in Requests, c \in RotationCalls :
        showCountry(r, c.name, c.style, c.method)
  \/ showCountryNoData
  \/ \E r \in Requests : showCountryTimer(r)
  \/ Tick
  \/ FrameBegin
  \/ FrameCallback

NoDataSpec == RotationInit /\ [][NoDataNext]_vars

\* ===================================================================== claims

\* C1. Single-flight: a filled conversion that begins while a conversion for
\* the same region key is in flight awaits the result of that one and runs no
\* computation of its own.
C1_SingleFlight ==
  [][\A r \in Requests : overlapped[r] => ~computed'[r]]_vars

\* C2. Stale results are discarded: the objects under earth belong to the
\* region requested last; a request that a request for another region has
\* followed attaches nothing.
C2_StaleDiscarded ==
  [][\A r \in Requests :
       (pc[r] # "done" /\ pc'[r] = "done")
          => \A q \in Requests :
                (r < q /\ q <= issued) => req[q].name = req[r].name]_vars

\* C3. In the task that issues a highlight request, every tracked object has
\* been detached and the list is empty when the task ends, and no fetch, store
\* read, asset load or computation of the request took place before that
\* task.
C3_DetachBeforeLookup ==
  [][\A r \in Requests :
       (pc[r] = "idle" /\ pc'[r] # "idle")
          => /\ previousGeometries' = <<>>
             /\ children' \cap Range(previousGeometries) = {}
             /\ ~storeReads[r] /\ ~computed[r] /\ meshPromise[r] = "none"
             /\ res[r] = NoArt]_vars

\* C3 witness: a request was issued while the objects of the one before it
\* were tracked, and they are gone.
C3_Witness ==
  /\ issued = 2
  /\ pc[1] = "done"
  /\ pc[2] \notin {"idle", "done"}
  /\ previousGeometries = <<>>
  /\ children = {}

\* C4. Rotation gates attachment. In showCountry a region of at most
\* 1,000,000 km2 reaches highlightPolygons only in the frame callback in which
\* its own rotation sets the final orientation and completes; a larger
\* region reaches it in the timer task in which its rotation is started, while
\* no rotation of the request has run. In highlightCountry objects are attached
\* only once the request's rotation has completed.
C4_RotationGatesAttachment ==
  [][\A r \in Requests :
       /\ (/\ build = "highlighter"
           /\ pc[r] \in {"timer", "rotating"}
           /\ pc'[r] \in {"loading", "done", "failed"})
            => IF AreaKm2(req[r].name) > LargeCountryArea
               THEN pc[r] = "timer" /\ rot[r] = "none" /\ rot'[r] = "running"
               ELSE /\ pc[r] = "rotating"
                    /\ rot[r] = "running" /\ rot'[r] = "done"
                    /\ elapsed[r] >= duration
                    /\ quat' = FinalRotation(r)
       /\ (build = "meshUtils" /\ pc[r] # "done" /\ pc'[r] = "done")
            => rot'[r] = "done"]_vars

\* C4 witness: a small region is attached after its rotation has completed
\* while a large region is already attached or loading with its rotation
\* still running.
C4_Witness ==
  \E r, q \in Requests :
     /\ build = "highlighter"
     /\ AreaKm2(req[r].name) <= LargeCountryArea
     /\ pc[r] = "done" /\ rot[r] = "done"
     /\ AreaKm2(req[q].name) > LargeCountryArea
     /\ pc[q] \in {"loading", "done"} /\ rot[q] = "running"
\* C5. A rotation with a completion function calls it exactly once: never
\* while the elapsed fraction is below 1, in the first frame callback of the
\* rotation that finds the fraction at 1, and after that the rotation has no
\* frame callback registered; while frames are delivered and time advances
\* every such rotation gets there, also when rotations overlap.
C5_CompletionExactlyOnce ==
  /\ [](\A r \in Requests :
          /\ completions[r] <= 1
          /\ (completions[r] = 1 => onComplete[r] /\ elapsed[r] >= duration)
          /\ (rot[r] = "done" => r \notin Range(raf) \cup Range(frameQ)))
  /\ [][\A r \in Requests :
          (/\ frameQ # <<>> /\ Head(frameQ) = r /\ frameQ' = Tail(frameQ)
           /\ onComplete[r])
             => IF elapsed[r] >= duration
                THEN completions'[r] = 1 /\ rot'[r] = "done"
                ELSE completions'[r] = 0 /\ r \in Range(raf')]_vars
  /\ \A r \in Requests :
        (rot[r] = "running" /\ onComplete[r]) ~> (completions[r] = 1)

\* C5 witness: a rotation has completed while one started before it is
\* still running with its completion function not yet called.
C5_Witness ==
  \E r, q \in Requests :
     /\ q < r
     /\ completions[r] = 1
     /\ rot[q] = "running" /\ onComplete[q] /\ completions[q] = 0

\* C6. A request with style "lines" or "pin" that is handed artifacts is
\* handed the artifacts of its own style, never a filled mesh.
C6_StyleServed ==
  \A r \in Requests :
     (pc[r] = "done" /\ req[r].style \in {"lines", "pin"})
        => res[r].kind = req[r].style

\* C7. A filled artifact returned by geoJsonTo3DMesh (highlighter module) was
\* projected at the radius of the request and built with the tessellation
\* method of the request.
C7_RadiusAndMethod ==
  \A r \in Requests :
     (build = "highlighter" /\ pc[r] = "done" /\ req[r].style = "mesh")
        => /\ res[r].radius = earthRadius
           /\ res[r].method = docMethod[r]
           /\ res[r].tess = Tessellation(docMethod[r], AreaKm2(req[r].name))

\* C8. A filled request issued after a filled request for the same key has
\* completed is served from the in-memory cache: it neither computes nor
\* reads the store or an asset.
C8_MemoryCacheFirst ==
  [][\A r \in Requests : priorDone[r] => ~computed'[r] /\ ~storeReads'[r]]_vars

C10_CacheFailureTolerated ==
  \A r \in Requests :
     (build = "highlighter" /\ req[r].style = "mesh") => pc[r] # "failed"

\* C11: a highlightCountry call for a code without an entry in the table of
\* center coordinates leaves the displayed geometry untouched: the children
\* of the globe and the tracked list are the same after the call as before.
C11_AbortLeavesGeometry ==
  [][\A r \in Requests :
       (/\ build = "meshUtils"
        /\ pc[r] = "idle" /\ pc'[r] # "idle"
        /\ req'[r].name \notin CenterCodes)
       => (children' = children /\ previousGeometries' = previousGeometries)]_vars

C14_NoFailureEscapes == \A r \in Requests : ~Escaped(r)

\* C18: closing a ring is idempotent: a ring whose first and last positions
\* are equal comes back unchanged, a ring whose first and last positions
\* differ gets exactly one position appended, equal to its first, and closing
\* a second time changes nothing.
C18_RingClosureIdempotent ==
  [][passes' = passes + 1 =>
       /\ aRing[1] = aRing[Len(aRing)] => aRing' = aRing
       /\ aRing[1] # aRing[Len(aRing)] => aRing' = Append(aRing, aRing[1])
       /\ passes >= 1 => aRing' = aRing]_vars

\* C13: when no valid geometry remains, the filled conversion yields an empty
\* set of artifacts and tells its caller of the failure; it never ends as an
\* empty success, for names of the allow-list and for other names alike.
C13_EmptyIsReported ==
  (/\ converter = "highlighter"
   /\ conversion.status # "none"
   /\ NoValidGeometry(geoJson))
  => (conversion.meshes = <<>> /\ conversion.status # "returned")

\* The feature list without its i-th feature.
RemoveAt(features, i) ==
  SubSeq(features, 1, i - 1) \o SubSeq(features, i + 1, Len(features))

\* The features with a geometry of another type than Polygon and
\* MultiPolygon.
Unsupported(features) ==
  {i \in 1..Len(features) :
     features[i].type \notin {"Polygon", "MultiPolygon", "none"}}

\* C15: in the filled conversion a feature whose geometry type is neither
\* Polygon nor MultiPolygon contributes no artifact, is reported exactly once
\* and does not stop the other features: the call ends as it does for the
\* document without that feature, with the same meshes.
C15_UnsupportedFeatureSkipped ==
  conversion.status # "none" =>
    /\ \A i \in Unsupported(geoJson.features) :
          LET without == geoJsonTo3DMesh(converter,
                           [geoJson EXCEPT !.features = RemoveAt(@, i)])
          IN  /\ conversion.status = without.status
              /\ conversion.meshes = without.meshes
              /\ conversion.saved = without.saved
    /\ conversion.status = "returned" =>
          Cardinality({k \in 1..Len(conversion.errors) :
                         conversion.errors[k] = "Unsupported geometry type"})
          = Cardinality(Unsupported(geoJson.features))

\* C15 witness: a document whose first feature is a LineString and whose
\* second feature is a polygon has been converted to the mesh of the polygon.
C15_Witness ==
  /\ conversion.status = "returned"
  /\ Len(geoJson.features) = 2
  /\ geoJson.features[1].type = "LineString"
  /\ geoJson.features[2].type = "Polygon"
  /\ Len(conversion.meshes) >= 1

\* C16: without an override the area of a polygon decides in every version
\* of geoJsonTo3DMesh: below 200,000 km2 it is triangulated directly, from
\* 200,000 to 1,000,000 km2 it goes to a grid with a cell side of 20 to 30 km,
\* above 1,000,000 km2 to a grid with a cell side of 75 to 100 km.
C16_AreaTiers ==
  (conversion.status # "none" /\ geoJson.meshMethod = "none") =>
    \A k \in 1..Len(conversion.processed) :
       LET p == conversion.processed[k]
       IN  /\ p.km2 < 200000 => p.cellSide = 0
           /\ (p.km2 >= 200000 /\ p.km2 <= 1000000) => p.cellSide \in 20..30
           /\ p.km2 > 1000000 => p.cellSide \in 75..100

\* C17: the override decides whatever the area is, in both directions: with
\* "earcut" every polygon is triangulated directly, with "turf" every polygon
\* goes to the grid; only without an override the thresholds decide.
C17_OverrideBothWays ==
  (conversion.status # "none" /\ converter \in {"highlighter", "meshUtils"}) =>
    \A k \in 1..Len(conversion.processed) :
       /\ geoJson.meshMethod = "earcut" => conversion.processed[k].cellSide = 0
       /\ geoJson.meshMethod = "turf" => conversion.processed[k].cellSide > 0

\* The documents all of whose features are polygons or multipolygons.
OnlyPolygons(doc) ==
  \A i \in 1..Len(doc.features) :
     doc.features[i].type \in {"Polygon", "MultiPolygon"}

\* C19: for every polygon and every ring of it, whatever its length, a ring
\* of fewer than 4 positions after closing is dropped without failing the
\* conversion, and every ring that reaches the area computation and the
\* triangulation has at least 4 positions and its first position as its last.
C19_ShortRingsDropped ==
  (/\ conversion.status # "none"
   /\ converter \in {"highlighter", "meshUtils"}
   /\ geoJson.name \notin allowList
   /\ OnlyPolygons(geoJson))
  => /\ conversion.status = "returned"
     /\ \A k \in 1..Len(conversion.processed) :
           \A i \in 1..Len(conversion.processed[k].rings) :
              LET rg == conversion.processed[k].rings[i]
              IN  Len(rg) >= 4 /\ rg[1] = rg[Len(rg)]

\* The number of positions, and of indices, of the meshes before the i-th.
RECURSIVE positionsBefore(_, _)
positionsBefore(meshes, i) ==
  IF i = 1 THEN 0
  ELSE positionsBefore(meshes, i - 1) + Len(meshes[i - 1].position)

RECURSIVE indicesBefore(_, _)
indicesBefore(meshes, i) ==
  IF i = 1 THEN 0
  ELSE indicesBefore(meshes, i - 1) + Len(meshes[i - 1].index)

\* C20: when the filled conversion of highlighter.js yields more than one
\* mesh for a name it caches, what it hands to saveMeshData is one combined
\* mesh: its vertex count and its index count are the sums over the meshes,
\* and the buffers of the meshes lie in it one after the other in their
\* order, the indices of each moved by the vertices before it.
C20_CombinedMeshIsSum ==
  (/\ conversion.status = "returned"
   /\ converter = "highlighter" /\ geoJson.name \in allowList
   /\ Len(conversion.meshes) > 1)
  => /\ Len(conversion.saved) = 1
     /\ LET ms == conversion.meshes
            c == conversion.saved[1]
        IN  /\ Len(c.position) = positionsBefore(ms, Len(ms) + 1)
            /\ Len(c.index) = indicesBefore(ms, Len(ms) + 1)
            /\ \A i \in 1..Len(ms) :
                  /\ \A k \in 1..Len(ms[i].position) :
                        c.position[positionsBefore(ms, i) + k] = ms[i].position[k]
                  /\ \A k \in 1..Len(ms[i].index) :
                        c.index[indicesBefore(ms, i) + k]
                        = ms[i].index[k] + positionsBefore(ms, i)

\* C20 witness: a conversion for a name of the allow-list has returned a
\* directly triangulated mesh followed by the meshes of grid cells, and has
\* handed a combined mesh to saveMeshData.
C20_Witness ==
  /\ conversion.status = "returned"
  /\ geoJson.name \in allowList
  /\ Len(conversion.meshes) > GridCells
  /\ Len(conversion.saved) = 1
  /\ \E k \in 1..Len(conversion.processed) : conversion.processed[k].cellSide = 0
  /\ \E k \in 1..Len(conversion.processed) : conversion.processed[k].cellSide > 0

\* The valid documents: every feature is a Polygon or a MultiPolygon, and
\* every ring has 4 or more positions and its first position as its last.
ValidDocument(doc) ==
  /\ OnlyPolygons(doc)
  /\ \A i \in 1..Len(doc.features) :
        ~turfPolygonThrows(ringsOf(doc.features[i].polygons))

\* The rings of all polygons of all features, in order.
RECURSIVE allRings(_)
allRings(features) ==
  IF features = <<>> THEN <<>>
  ELSE ringsOf(Head(features).polygons) \o allRings(Tail(features))

\* C21: for every valid document, of Polygon and MultiPolygon features, the
\* outline conversion returns exactly one line loop per ring of every polygon
\* of every feature, as separate loops in the order of the input, each with
\* the projected points of the coordinates of its ring.
C21_OneLoopPerRing ==
  (conversion.status # "none" /\ ValidDocument(geoJson)) =>
    /\ conversion.status = "returned"
    /\ Len(conversion.meshes) = Len(allRings(geoJson.features))
    /\ \A k \in 1..Len(conversion.meshes) :
          LET rg == allRings(geoJson.features)[k]
          IN  SubSeq(conversion.meshes[k].position, 1, Len(rg))
              = [n \in 1..Len(rg) |-> projected(rg[n])]

\* C22: cache lookups are normalized in letter case: two requests whose
\* identifiers differ only in case have the same key, get the same decision
\* of the allow-list and write the same entry.
C22_CaseNormalizedKey ==
  conversion.status = "returned" =>
    LET twin == geoJsonTo3DMesh(converter,
                  [geoJson EXCEPT !.name = OtherCase(@)])
    IN  /\ cacheKey(geoJson.name) = cacheKey(OtherCase(geoJson.name))
        /\ twin.status = "returned"
        /\ twin.saved = conversion.saved

C24_OneRequestAttached ==
  \A u, v \in children : u[1] = v[1]

\* A request is in flight: issued and not yet ended.
InFlight(r) == pc[r] \in {"timer", "rotating", "loading", "fetching", "awaitMesh"}

\* C25. Every highlight object attached by highlightPolygons or by the
\* rotation callback of highlightCountry has its uuid in the list of previous
\* geometries; when removePreviousGeometries returns, no recorded object is
\* under earth and the list is empty; hence a request issued while no other
\* request is in flight starts from an earth without highlight geometry.
C25_AttachedIsTracked ==
  /\ [](children \subseteq Range(previousGeometries))
  /\ [][\A r \in Requests :
          (pc[r] = "idle" /\ pc'[r] # "idle")
             => /\ children' \cap Range(previousGeometries) = {}
                /\ previousGeometries' = <<>>
                /\ ((\A q \in Requests \ {r} : ~InFlight(q)) => children' = {})]_vars

\* C25 witness: the objects of a first request were attached and tracked, a
\* second request removed them, and the objects of the second are now the
\* ones under earth, every one of them tracked.
C25_Witness ==
  /\ issued = 2
  /\ pc[1] = "done" /\ res[1].n > 0
  /\ pc[2] = "done" /\ res[2].n > 0
  /\ children = Uuids(2, res[2])
  /\ Range(previousGeometries) = children

\* C26. For an allow-listed region the artifacts geoJsonTo3DMesh returns on a
\* hit of the persistent store are equivalent to the ones it returned on the
\* miss that filled the entry: as many artifacts, each with the same number
\* of vertices and of indices.
C26_HitEqualsMiss ==
  (conversion.status = "returned" /\ conversion.saved # <<>>)
     => LET hit == loadMeshData(conversion.saved)
            miss == conversion.meshes
        IN  /\ Len(hit) = Len(miss)
            /\ \A i \in 1..Len(hit) :
                  /\ Len(hit[i].position) = Len(miss[i].position)
                  /\ Len(hit[i].index) = Len(miss[i].index)

\* C27. Ring normalization keeps the roles of the rings: the first ring of
\* every ring set handed to the triangulator comes from the first (outer)
\* ring of the input polygon; a polygon whose outer ring is dropped as too
\* short is skipped as a whole, no hole becomes the outer boundary.
C27_RolesKept ==
  (/\ conversion.status # "none"
   /\ Len(geoJson.features) = 1
   /\ geoJson.features[1].type \in {"Polygon", "MultiPolygon"}
   /\ Len(geoJson.features[1].polygons) = 1)
     => LET input == geoJson.features[1].polygons[1].rings
        IN  /\ \A i \in 1..Len(conversion.processed) :
                  conversion.processed[i].rings[1] = ringClosed(input[1])
            /\ (input[1] # <<>> /\ Len(ringClosed(input[1])) < 4)
                  => conversion.processed = <<>> /\ conversion.meshes = <<>>

\* The polygons of the intersections of a grid: none for a cell without
\* intersection, one for a Polygon, those of its coordinates for a
\* MultiPolygon.
RECURSIVE polygonsIn(_)
polygonsIn(cells) ==
  IF cells = <<>>
  THEN 0
  ELSE (CASE Head(cells).type = "Polygon"      -> 1
          [] Head(cells).type = "MultiPolygon" -> Len(Head(cells).coordinates)
          [] OTHER                             -> 0)
       + polygonsIn(Tail(cells))

\* C28. In grid tessellation a cell whose intersection with the polygon is
\* empty produces no mesh, and of every surviving intersection, Polygon or
\* MultiPolygon, the triangulator is handed ring sets, one triangulation per
\* polygon of the intersection.
C28_RingSetPerIntersection ==
  \A k \in 1..Len(conversion.processed) :
     LET p == conversion.processed[k]
     IN  p.cellSide > 0
           => /\ Len(p.flattened) = polygonsIn(p.intersections)
              /\ \A i \in 1..Len(p.flattened) : p.flattened[i].type = "Polygon"

\* The rotation started last: in showCountry rotations start in the order of
\* the requests, the timers of equal delay firing in the order they were set.
lastStarted == CHOOSE r \in Requests : rot[r] # "none" /\ \A q \in Requests : q > r => rot[q] = "none"

\* C29. When rotations overlap, once all of them have completed the
\* orientation of the earth is the final rotation of the rotation started
\* last: an earlier rotation never overwrites the final orientation of a
\* later one.
C29_LastRotationWins ==
  (/\ build = "highlighter"
   /\ \E r \in Requests : rot[r] = "done"
   /\ \A r \in Requests : rot[r] # "running")
     => quat = FinalRotation(lastStarted)

\* C30. showCountry called without GeoJSON data changes nothing: the attached
\* geometry stays attached, the tracked list is unchanged, no timer is set, no
\* rotation starts and no conversion runs.
C30_NoDataChangesNothing ==
  [][Len(noData') > Len(noData)
       => /\ children' = children
          /\ previousGeometries' = previousGeometries
          /\ issued' = issued /\ req' = req /\ pc' = pc
          /\ rot' = rot /\ raf' = raf /\ frameQ' = frameQ /\ quat' = quat
          /\ computed' = computed /\ storeReads' = storeReads
          /\ res' = res /\ save' = save /\ store' = store]_vars

\* C30 witness: a call without a document returned while the objects of a
\* completed request were under earth and tracked, and they still are.
C30_Witness ==
  /\ noData # <<>>
  /\ noData[1] # {}
  /\ children = noData[1]
  /\ Range(previousGeometries) = children

====
